---- MODULE Spec2Model ----
(***************************************************************************)
(* A model of oss-history (action.py): main() resolves the zephyr          *)
(* merge-base, obtains the out-of-tree commits from "west ncs-loot" and,   *)
(* project by project, clones the repository, replays the commits onto the *)
(* upstream commit by cherry-pick and checks that the rewritten history    *)
(* has an empty diff with the original revision.                           *)
(*                                                                         *)
(* Every external command (git, west) is a step whose outcome, success or  *)
(* a non-zero exit, is chosen nondeterministically.  runc() runs commands  *)
(* with check=True, so a non-zero exit raises CalledProcessError; an       *)
(* exception nobody catches ends the interpreter with status 1, as does    *)
(* sys.exit() with a string or with 1.                                     *)
(***************************************************************************)
EXTENDS Integers, Sequences, FiniteSets, TLC

\* Number of projects asked for (-p, or DEFAULT_PROJECTS_TO_CHECK).
NumProjects == 2
\* Longest list of out-of-tree commits ('shas') of one project.
MaxPatches == 2
\* How many times the rewrite is run again on a fresh clone, and how far
\* the clock of the committer dates goes.
MaxReruns == 2
MaxClock == 2
\* How many lines git ls-remote prints, and how many characters follow the
\* beginning of a line.
MaxLines == 2
MaxBody == 2

VARIABLES
    pc,                \* position of main() in its code
    ARGS,              \* the parsed command line
    zephyr_is_dir,     \* whether <workspace>/zephyr is a directory
    zephyr_merge_base, \* main's local of that name
    json_tmp,          \* whether get_ncs_loot's temporary file exists
    exc,               \* exception pending inside get_ncs_loot's try block
    loot_rev,          \* the --zephyr-rev handed to west ncs-loot
    ncs_loot,          \* the parsed west ncs-loot output, in dict order
    project,           \* index in ncs_loot of the project being checked
    sha,               \* index in loot['shas'] of the patch being picked
    disk,              \* what lies at <workspace>/oss-history/<project>
    repo,              \* the git repository at that path
    workspace,         \* the git repositories of the workspace, by project
    rewrite_sha,       \* main's local of that name
    diffs,             \* the git diff commands run so far
    ops,               \* every external command run so far, in order
    exit_status,       \* the interpreter's exit status, once pc = "exit"
    error,             \* what ended the run, "" while none
    reported,          \* whether all_good() has printed the success banner
    \* rewrite_history() and check_history_rewrite() run again and again on
    \* fresh clones with the same arguments (RerunSpec):
    rr_in,             \* the arguments and what git makes of each patch
    rr_pc,             \* position of the rerun
    rr_HEAD,           \* HEAD of the fresh clone
    rr_sha,            \* index in patches of the patch being picked
    rr_out,            \* what each rerun ended with
    now,               \* the time of day, which git takes as committer date
    \* get_merge_base() called with branch=None (MergeBaseSpec):
    output,            \* what git ls-remote printed, in get_head_branch
    branch,            \* get_merge_base's parameter of that name
    mb_pc,             \* position of get_merge_base in its code
    mb_ops,            \* the git commands get_merge_base has run, in order
    mb_exc             \* the exception that left get_merge_base, "" while none

vars == <<pc, ARGS, zephyr_is_dir, zephyr_merge_base, json_tmp, exc, loot_rev, ncs_loot,
          project, sha, disk, repo, workspace, rewrite_sha, diffs, ops, exit_status,
          error, reported, rr_in, rr_pc, rr_HEAD, rr_sha, rr_out, now,
          output, branch, mb_pc, mb_ops, mb_exc>>

Projects == 1..NumProjects

-----------------------------------------------------------------------------
\* Commit identifiers.  A commit is named by the history it stands for: the
\* revision it starts from and the cherry-picks made on top of it.

NoSha == [kind |-> "none", proj |-> 0, picks |-> <<>>]
\* loot['upstream-commit'] of project p
UpstreamCommit(p) == [kind |-> "upstream", proj |-> p, picks |-> <<>>]
\* loot['ncs-commit'] of project p, the revision of the workspace repository
NcsCommit(p) == [kind |-> "ncs", proj |-> p, picks |-> <<>>]
\* The commit a cherry-pick of patch s creates on top of commit c.
Picked(c, s, redundant) ==
    [c EXCEPT !.picks = Append(@, [sha |-> s, redundant |-> redundant])]

-----------------------------------------------------------------------------
\* Shortlogs are strings over a three-letter alphabet: a word character, a
\* dot and a blank.

RECURSIVE rstrip(_)
rstrip(s) ==
    IF s # <<>> /\ s[Len(s)] = " " THEN rstrip(SubSeq(s, 1, Len(s) - 1)) ELSE s

Ellipsis == <<".", ".", ".">>

endswith(s, suffix) ==
    /\ Len(s) >= Len(suffix)
    /\ SubSeq(s, Len(s) - Len(suffix) + 1, Len(s)) = suffix

\* A shortlog in full, which may well end with a dot or two.
FullShortlog == <<"a", ".", ".">>
\* Shortlogs cut short: "a..." and, with a trailing blank, "a... ".
OddShortlogs == { <<"a", ".", ".", ".">>, <<"a", ".", ".", ".", " ">> }

\* zip(a, b): the pairs up to the shorter of the two lists.
zip(a, b) ==
    [j \in 1..(IF Len(a) <= Len(b) THEN Len(a) ELSE Len(b)) |-> <<a[j], b[j]>>]

-----------------------------------------------------------------------------
\* The west ncs-loot output.

Keys == {"shas", "shortlogs", "path", "upstream-commit", "ncs-commit"}

NoDefect == [proj |-> 0, key |-> "", idx |-> 0, text |-> <<>>]

\* What can be wrong with the loot of projects 1..len whose patch counts are
\* ns: nothing, one entry lacking one key, or one shortlog being cut short.
Defects(len, ns) ==
    {NoDefect}
    \cup { [proj |-> p, key |-> key, idx |-> 0, text |-> <<>>] :
             p \in 1..len, key \in Keys }
    \cup UNION { { [proj |-> p, key |-> "", idx |-> j, text |-> t] :
                     j \in 1..ns[p], t \in OddShortlogs } : p \in 1..len }

LootEntry(p, n, d) ==
    [name      |-> p,
     keys      |-> IF d.proj = p /\ d.key # "" THEN Keys \ {d.key} ELSE Keys,
     shas      |-> [j \in 1..n |-> j],
     shortlogs |-> [j \in 1..n |->
                      IF d.proj = p /\ d.idx = j THEN d.text ELSE FullShortlog]]

\* How many patches a project of the loot has: none, one, or as many as the
\* bound allows.
PatchCounts == {0, 1, MaxPatches}

Loots ==
    UNION { UNION { { [p \in 1..len |-> LootEntry(p, ns[p], d)] :
                        d \in Defects(len, ns) } :
                    ns \in [1..len -> PatchCounts] } :
            len \in 0..NumProjects }

-----------------------------------------------------------------------------
\* The clone directories under <workspace>/oss-history.

\* A repository somebody left at the path before this run.
StaleRepo == [HEAD |-> NoSha, state |-> "stale", config |-> {}]
\* No repository.
NoRepo == [HEAD |-> NoSha, state |-> "none", config |-> {}]
\* A fresh clone of the workspace repository of project p.
FreshClone(p) == [HEAD |-> NcsCommit(p), state |-> "clean", config |-> {}]

\* What may lie under <workspace>/oss-history when the run starts: nothing,
\* or the clone of one project.  (With several the first in loot order
\* decides: without --force the run ends there, with --force shutil.rmtree
\* removes them all.)
StaleDisks ==
    { [p \in Projects |-> IF p = q THEN "stale" ELSE "absent"] :
        q \in Projects \cup {0} }

\* A repository of the workspace, at the revision of the manifest.
WorkspaceRepo(p) == [HEAD |-> NcsCommit(p), state |-> "clean", config |-> {}]

\* A main() that rewrites history where the project lies in the workspace.
ToPath_source(p) == <<"workspace", p>>

\* to_path = (ARGS.workspace / 'oss-history' / project_name).resolve()
ToPath(p) == <<"oss-history", p>>
\* from_path = (ARGS.workspace / loot['path']).resolve()
FromPath(p) == <<"workspace", p>>

\* The directory a command runs in: get_merge_base() works in the zephyr
\* repository, west in the workspace, git clone and rmtree where the script
\* was started, and every other git command in to_path (cwd=to_path in
\* main(), cwd=path in rewrite_history() and check_history_rewrite()).
Cwd(name, p) ==
    IF name \in {"fetch", "rev-parse FETCH_HEAD", "merge-base"}
    THEN <<"zephyr", 0>>
    ELSE IF name = "west ncs-loot" THEN <<"topdir", 0>>
    ELSE IF name \in {"rmtree", "clone"} THEN <<"getcwd", 0>>
    ELSE ToPath(p)

Op(name, p, arg) == [op |-> name, proj |-> p, arg |-> arg]

\* No rerun is going on.
NoRerun ==
    /\ rr_in = [base_commit |-> 0, patches |-> <<>>, before_tree |-> <<>>,
                applies |-> <<>>]
    /\ rr_pc = "none"
    /\ rr_HEAD = [base |-> 0, picks |-> <<>>]
    /\ rr_sha = 0
    /\ rr_out = <<>>
    /\ now = 1

\* branch=None, get_merge_base's default.
None == [given |-> FALSE, name |-> <<>>]

\* get_merge_base is not being called with branch=None.
NoLookup ==
    /\ output = <<>>
    /\ branch = None
    /\ mb_pc = "none"
    /\ mb_ops = <<>>
    /\ mb_exc = ""

Init ==
    /\ NoRerun
    /\ NoLookup
    /\ pc = "main"
    /\ ARGS \in [force : BOOLEAN, no_user_config : BOOLEAN,
                 zephyr_merge_base : {"None", "REF"}]
    /\ zephyr_is_dir \in BOOLEAN
    /\ zephyr_merge_base = "None"
    /\ json_tmp = FALSE
    /\ exc = ""
    /\ loot_rev = "None"
    /\ ncs_loot = <<>>
    /\ project = 0
    /\ sha = 0
    /\ disk \in StaleDisks
    /\ repo = [p \in Projects |-> IF disk[p] = "stale" THEN StaleRepo ELSE NoRepo]
    /\ workspace = [p \in Projects |-> WorkspaceRepo(p)]
    /\ rewrite_sha = NoSha
    /\ diffs = <<>>
    /\ ops = <<>>
    /\ exit_status = 0
    /\ error = ""
    /\ reported = FALSE

\* The interpreter ends with a non-zero status: sys.exit(1), sys.exit(<text>)
\* or an exception that nobody catches.
Die(why) ==
    /\ pc' = "exit"
    /\ exit_status' = 1
    /\ error' = why

Run(name, p, arg) == ops' = Append(ops, Op(name, p, arg))

\* The repository at a path.
RepoAt(path) ==
    IF path[1] = "oss-history" THEN repo[path[2]] ELSE workspace[path[2]]

\* A git command that runs in the directory path leaves the repository there
\* as r, and every other repository as it was.
GitIn(path, r) ==
    /\ repo' = IF path[1] = "oss-history" THEN [repo EXCEPT ![path[2]] = r]
                                          ELSE repo
    /\ workspace' = IF path[1] = "workspace"
                    THEN [workspace EXCEPT ![path[2]] = r]
                    ELSE workspace

\* Variable groups, for the frame conditions.
cmdline == <<ARGS, zephyr_is_dir>>
lootvars == <<json_tmp, exc, loot_rev, ncs_loot>>
loopvars == <<project, sha>>
clones == <<disk, repo, workspace>>
rerun == <<rr_in, rr_pc, rr_HEAD, rr_sha, rr_out, now>>
lookup == <<output, branch, mb_pc, mb_ops, mb_exc>>
results == <<rewrite_sha, diffs, reported>>
running == <<exit_status, error>>

-----------------------------------------------------------------------------
\* main(), lines 381-397: the workspace check and the merge-base.

\* if not zephyr.is_dir(): sys.exit(...)
CheckZephyr ==
    /\ pc = "main"
    /\ IF zephyr_is_dir
       THEN /\ pc' = "baseline"
            /\ UNCHANGED running
       ELSE Die("NoZephyr")
    /\ UNCHANGED <<cmdline, rerun, lookup, zephyr_merge_base, lootvars, loopvars, clones,
                   results, ops>>

\* A main() that calls get_merge_base() whatever --zephyr-merge-base says.
ChooseMergeBase_fetch ==
    /\ pc = "baseline"
    /\ pc' = "fetch"
    /\ UNCHANGED <<cmdline, rerun, lookup, zephyr_merge_base, lootvars, loopvars, clones,
                   results, ops, running>>

\* if ARGS.zephyr_merge_base is not None: ... else: get_merge_base(...)
ChooseMergeBase ==
    /\ pc = "baseline"
    /\ IF ARGS.zephyr_merge_base # "None"
       THEN /\ zephyr_merge_base' = ARGS.zephyr_merge_base
            /\ pc' = "get_ncs_loot"
       ELSE /\ zephyr_merge_base' = zephyr_merge_base
            /\ pc' = "fetch"
    /\ UNCHANGED <<cmdline, rerun, lookup, lootvars, loopvars, clones, results, ops, running>>

\* get_merge_base: git fetch <url> main
GitFetch ==
    /\ pc = "fetch"
    /\ Run("fetch", 0, 0)
    /\ \E ok \in BOOLEAN :
         IF ok THEN pc' = "rev_parse_fetch_head" /\ UNCHANGED running
               ELSE Die("CommandFailed")
    /\ UNCHANGED <<cmdline, rerun, lookup, zephyr_merge_base, lootvars, loopvars, clones,
                   results>>

\* get_merge_base: git rev-parse FETCH_HEAD
GitRevParseFetchHead ==
    /\ pc = "rev_parse_fetch_head"
    /\ Run("rev-parse FETCH_HEAD", 0, 0)
    /\ \E ok \in BOOLEAN :
         IF ok THEN pc' = "merge_base" /\ UNCHANGED running
               ELSE Die("CommandFailed")
    /\ UNCHANGED <<cmdline, rerun, lookup, zephyr_merge_base, lootvars, loopvars, clones,
                   results>>

\* get_merge_base: git merge-base HEAD <upstream_sha>; its output is returned
GitMergeBase ==
    /\ pc = "merge_base"
    /\ Run("merge-base", 0, 0)
    /\ \E ok \in BOOLEAN :
         IF ok THEN /\ zephyr_merge_base' = "MERGE_BASE"
                    /\ pc' = "get_ncs_loot"
                    /\ UNCHANGED running
               ELSE /\ zephyr_merge_base' = zephyr_merge_base
                    /\ Die("CommandFailed")
    /\ UNCHANGED <<cmdline, rerun, lookup, lootvars, loopvars, clones, results>>

-----------------------------------------------------------------------------
\* get_ncs_loot(), lines 228-253.

\* tempfile.mkstemp(...); os.close(fd)
LootMkstemp ==
    /\ pc = "get_ncs_loot"
    /\ json_tmp' = TRUE
    /\ pc' = "west"
    /\ UNCHANGED <<cmdline, rerun, lookup, zephyr_merge_base, exc, loot_rev, ncs_loot,
                   loopvars, clones, results, ops, running>>

\* try: runc('west ncs-loot --zephyr-rev ... --json ... <projects>')
WestNcsLoot ==
    /\ pc = "west"
    /\ Run("west ncs-loot", 0, 0)
    /\ loot_rev' = zephyr_merge_base
    /\ \E ok \in BOOLEAN :
         IF ok THEN pc' = "json_load" /\ exc' = exc
               ELSE pc' = "finally" /\ exc' = "CommandFailed"
    /\ UNCHANGED <<cmdline, rerun, lookup, zephyr_merge_base, json_tmp, ncs_loot, loopvars,
                   clones, results, running>>

\* with open(json_tmp) as f: json_output = json.load(f)
JsonLoad ==
    /\ pc = "json_load"
    /\ pc' = "finally"
    /\ \/ exc' = "JSONDecodeError" /\ ncs_loot' = ncs_loot
       \/ exc' = exc /\ ncs_loot' \in Loots
    /\ UNCHANGED <<cmdline, rerun, lookup, zephyr_merge_base, json_tmp, loot_rev, loopvars,
                   clones, results, ops, running>>

\* A loop that turns to the entry after the next one.
LoopTo_skip(k, loot) ==
    IF k + 1 <= Len(loot) THEN /\ pc' = "check_shortlogs"
                               /\ project' = k + 1
                          ELSE /\ pc' = "all_good"
                               /\ project' = project

\* The project main's loop turns to after project k: the next entry of
\* ncs_loot.items(), or all_good() after the last.
LoopTo(k, loot) ==
    IF k <= Len(loot) THEN /\ pc' = "check_shortlogs"
                           /\ project' = k
                      ELSE /\ pc' = "all_good"
                           /\ project' = project

\* An os.unlink(json_tmp) after the try block, with no finally: whether the
\* file is still there when get_ncs_loot is left with exception e pending.
Unlink_no_finally(e) == e # ""

\* finally: os.unlink(json_tmp): whether the file is still there when
\* get_ncs_loot is left with exception e pending ("" for none).
Unlink(e) == FALSE

\* finally: os.unlink(json_tmp); then return json_output, or the exception
\* goes on to end main().
LootFinally ==
    /\ pc = "finally"
    /\ json_tmp' = Unlink(exc)
    /\ IF exc # ""
       THEN /\ Die(exc)
            /\ project' = project
       ELSE /\ LoopTo(1, ncs_loot)
            /\ UNCHANGED running
    /\ UNCHANGED <<cmdline, rerun, lookup, zephyr_merge_base, exc, loot_rev, ncs_loot, sha,
                   clones, results, ops>>

-----------------------------------------------------------------------------
\* main(), lines 399-422: the loop over ncs_loot.items().

Loot == ncs_loot[project]
Name == Loot.name

\* shortlog.rstrip().endswith('...')
Truncated(shortlog) == endswith(rstrip(shortlog), Ellipsis)

\* for sha, shortlog in zip(loot['shas'], loot['shortlogs']): sys.exit(...)
\* when a shortlog ends with "..."
CheckShortlogs ==
    /\ pc = "check_shortlogs"
    /\ IF ~({"shas", "shortlogs"} \subseteq Loot.keys)
       THEN Die("KeyError")
       ELSE LET pairs == zip(Loot.shas, Loot.shortlogs)
            IN  IF \E j \in DOMAIN pairs : Truncated(pairs[j][2])
                THEN Die("TruncatedSummary")
                ELSE pc' = "synchronize_into" /\ UNCHANGED running
    /\ UNCHANGED <<cmdline, rerun, lookup, zephyr_merge_base, lootvars, loopvars, clones,
                   results, ops>>

\* An rmtree that misses the directory in the way.
Removed_others(p) == Projects \ {p}

\* The project directories shutil.rmtree(to_path.parent) removes when the
\* clone of project p is in the way: to_path.parent is
\* <workspace>/oss-history, which holds the clones of all projects.
Removed(p) == Projects

\* from_path = ... loot['path'] ...; synchronize_into() up to the clone:
\* if to_path.exists(): sys.exit(...) unless ARGS.force, else shutil.rmtree
SynchronizeInto ==
    /\ pc = "synchronize_into"
    /\ IF "path" \notin Loot.keys
       THEN Die("KeyError") /\ UNCHANGED <<clones, ops>>
       ELSE IF disk[Name] = "absent"
       THEN pc' = "clone" /\ UNCHANGED <<clones, ops, running>>
       ELSE IF ~ARGS.force
       THEN Die("ClonePathConflict") /\ UNCHANGED <<clones, ops>>
       ELSE /\ Run("rmtree", Name, 0)
            /\ \/ /\ disk' = [p \in Projects |->
                                IF p \in Removed(Name) THEN "absent" ELSE disk[p]]
                  /\ repo' = [p \in Projects |->
                                IF p \in Removed(Name) THEN NoRepo ELSE repo[p]]
                  /\ workspace' = workspace
                  /\ pc' = "clone"
                  /\ UNCHANGED running
               \/ /\ Die("OSError")
                  /\ UNCHANGED clones
    /\ UNCHANGED <<cmdline, rerun, lookup, zephyr_merge_base, lootvars, loopvars, results>>

\* A main() that configures the clone whatever --no-user-config says.
AfterClone_always == "config_name"

\* Where main() goes once synchronize_into() has returned:
\* if not ARGS.no_user_config: ... git config ...
AfterClone == IF ARGS.no_user_config THEN "checkout" ELSE "config_name"

\* runc(f'git clone {from_path} {to_path}')
GitClone ==
    /\ pc = "clone"
    /\ Run("clone", Name, 0)
    /\ \E ok \in BOOLEAN :
         IF ok THEN /\ disk' = [disk EXCEPT ![Name] = "clone"]
                    /\ repo' = [repo EXCEPT ![Name] = FreshClone(Name)]
                    /\ workspace' = workspace
                    /\ pc' = AfterClone
                    /\ UNCHANGED running
               ELSE /\ Die("CommandFailed")
                    /\ UNCHANGED clones
    /\ UNCHANGED <<cmdline, rerun, lookup, zephyr_merge_base, lootvars, loopvars, results>>

\* runc('git config user.name oss-history', cwd=to_path)
GitConfigName ==
    /\ pc = "config_name"
    /\ Run("config user.name", Name, 0)
    /\ \E ok \in BOOLEAN :
         IF ok THEN /\ GitIn(Cwd("config user.name", Name),
                             [RepoAt(Cwd("config user.name", Name)) EXCEPT
                                !.config = @ \cup {"user.name"}])
                    /\ pc' = "config_email"
                    /\ UNCHANGED running
               ELSE /\ Die("CommandFailed")
                    /\ UNCHANGED <<repo, workspace>>
    /\ UNCHANGED <<cmdline, rerun, lookup, zephyr_merge_base, lootvars, loopvars, disk, results>>

\* runc('git config user.email bot', cwd=to_path)
GitConfigEmail ==
    /\ pc = "config_email"
    /\ Run("config user.email", Name, 0)
    /\ \E ok \in BOOLEAN :
         IF ok THEN /\ GitIn(Cwd("config user.email", Name),
                             [RepoAt(Cwd("config user.email", Name)) EXCEPT
                                !.config = @ \cup {"user.email"}])
                    /\ pc' = "checkout"
                    /\ UNCHANGED running
               ELSE /\ Die("CommandFailed")
                    /\ UNCHANGED <<repo, workspace>>
    /\ UNCHANGED <<cmdline, rerun, lookup, zephyr_merge_base, lootvars, loopvars, disk, results>>

-----------------------------------------------------------------------------
\* rewrite_history(), lines 271-340.

\* rewrite_history(to_path, loot['upstream-commit'], loot['shas']):
\* runc(f'git checkout {base_commit}', cwd=path)
GitCheckout ==
    /\ pc = "checkout"
    /\ IF "upstream-commit" \notin Loot.keys
       THEN Die("KeyError") /\ UNCHANGED <<repo, workspace, ops>>
       ELSE /\ Run("checkout", Name, 0)
            /\ \E ok \in BOOLEAN :
                 IF ok THEN /\ GitIn(Cwd("checkout", Name),
                                     [RepoAt(Cwd("checkout", Name)) EXCEPT
                                        !.HEAD = UpstreamCommit(Name)])
                            /\ pc' = "status"
                            /\ UNCHANGED running
                       ELSE /\ Die("CommandFailed")
                            /\ UNCHANGED <<repo, workspace>>
    /\ UNCHANGED <<cmdline, rerun, lookup, zephyr_merge_base, lootvars, loopvars, disk, results>>

\* A loop that starts one patch too far.
PickNext_skip(j, patches) ==
    IF j + 1 <= Len(patches) THEN pc' = "cherry_pick" /\ sha' = j + 1
                             ELSE pc' = "rev_parse" /\ sha' = sha

\* Where the for loop over patches goes after patch j: the next patch, or
\* past the loop to git rev-parse HEAD.
PickNext(j, patches) ==
    IF j <= Len(patches) THEN pc' = "cherry_pick" /\ sha' = j
                         ELSE pc' = "rev_parse" /\ sha' = sha

\* runc('git status', cwd=path)
GitStatus ==
    /\ pc = "status"
    /\ Run("status", Name, 0)
    /\ \E ok \in BOOLEAN :
         IF ok THEN PickNext(1, Loot.shas) /\ UNCHANGED running
               ELSE Die("CommandFailed") /\ sha' = sha
    /\ UNCHANGED <<cmdline, rerun, lookup, zephyr_merge_base, lootvars, project, clones, results>>

\* try: runc(f'{CHERRY_PICK} {sha}', cwd=path)
\* except subprocess.CalledProcessError: ...
CherryPick ==
    /\ pc = "cherry_pick"
    /\ Run("cherry-pick", Name, Loot.shas[sha])
    /\ \E ok \in BOOLEAN :
         IF ok THEN /\ GitIn(Cwd("cherry-pick", Name),
                             [RepoAt(Cwd("cherry-pick", Name)) EXCEPT
                                !.HEAD = Picked(@, Loot.shas[sha], FALSE)])
                    /\ PickNext(sha + 1, Loot.shas)
               ELSE /\ GitIn(Cwd("cherry-pick", Name),
                             [RepoAt(Cwd("cherry-pick", Name)) EXCEPT
                                !.state = "picking"])
                    /\ pc' = "cherry_pick_abort"
                    /\ sha' = sha
    /\ UNCHANGED <<cmdline, rerun, lookup, zephyr_merge_base, lootvars, project, disk, results,
                   running>>

\* An except clause that tries the retry whatever became of the abort.
AfterAbort_retry(ok) ==
    /\ GitIn(Cwd("cherry-pick --abort", Name),
             [RepoAt(Cwd("cherry-pick --abort", Name)) EXCEPT
                !.state = IF ok THEN "clean" ELSE @])
    /\ pc' = "keep_redundant"
    /\ UNCHANGED running

\* runc() checks the exit status of git cherry-pick --abort: the except
\* clause goes on to the retry when it is 0, and CalledProcessError leaves
\* rewrite_history() and main() when it is not.
AfterAbort(ok) ==
    IF ok THEN /\ GitIn(Cwd("cherry-pick --abort", Name),
                        [RepoAt(Cwd("cherry-pick --abort", Name)) EXCEPT
                           !.state = "clean"])
               /\ pc' = "keep_redundant"
               /\ UNCHANGED running
          ELSE /\ Die("CommandFailed")
               /\ UNCHANGED <<repo, workspace>>

\* In the except clause: runc('git cherry-pick --abort', cwd=path)
CherryPickAbort ==
    /\ pc = "cherry_pick_abort"
    /\ Run("cherry-pick --abort", Name, Loot.shas[sha])
    /\ \E ok \in BOOLEAN : AfterAbort(ok)
    /\ UNCHANGED <<cmdline, rerun, lookup, zephyr_merge_base, lootvars, loopvars, disk, results>>

\* An except clause that picks the patch once more after the retry.
AfterKeepRedundant_again(ok) ==
    /\ pc' = "cherry_pick"
    /\ sha' = sha
    /\ UNCHANGED running

\* An except clause that goes on with the next patch when the retry worked.
AfterKeepRedundant_continue(ok) ==
    IF ok THEN PickNext(sha + 1, Loot.shas) /\ UNCHANGED running
          ELSE Die("PatchReplayError") /\ sha' = sha

\* An except clause that only exits when the retry worked.
AfterKeepRedundant_skip(ok) ==
    IF ok THEN Die("RedundantCommit") /\ sha' = sha
          ELSE PickNext(sha + 1, Loot.shas) /\ UNCHANGED running

\* The end of the except clause, whatever the retry did: after
\* stdout('... is not a redundant commit ...') (ok false) or
\* stdout('... is a redundant commit ...') (ok true), sys.exit(1).
AfterKeepRedundant(ok) ==
    /\ Die(IF ok THEN "RedundantCommit" ELSE "PatchReplayError")
    /\ sha' = sha

\* try: runc(f'{CHERRY_PICK} --keep-redundant-commits {sha}', cwd=path)
\* except ...: stdout(...)  else: stdout(...)
\* sys.exit(1)
CherryPickKeepRedundant ==
    /\ pc = "keep_redundant"
    /\ Run("cherry-pick --keep-redundant-commits", Name, Loot.shas[sha])
    /\ \E ok \in BOOLEAN :
         /\ LET path == Cwd("cherry-pick --keep-redundant-commits", Name)
            IN  GitIn(path,
                      IF ok THEN [RepoAt(path) EXCEPT
                                    !.HEAD = Picked(@, Loot.shas[sha], TRUE)]
                            ELSE [RepoAt(path) EXCEPT !.state = "conflict"])
         /\ AfterKeepRedundant(ok)
    /\ UNCHANGED <<cmdline, rerun, lookup, zephyr_merge_base, lootvars, project, disk, results>>

\* rewrite_sha = runc_out('git rev-parse HEAD', cwd=path).strip()
GitRevParseHead ==
    /\ pc = "rev_parse"
    /\ Run("rev-parse HEAD", Name, 0)
    /\ \E ok \in BOOLEAN :
         IF ok THEN /\ rewrite_sha' = RepoAt(Cwd("rev-parse HEAD", Name)).HEAD
                    /\ pc' = "diff"
                    /\ UNCHANGED running
               ELSE /\ Die("CommandFailed")
                    /\ rewrite_sha' = rewrite_sha
    /\ UNCHANGED <<cmdline, rerun, lookup, zephyr_merge_base, lootvars, loopvars, clones, diffs,
                   reported>>

-----------------------------------------------------------------------------
\* check_history_rewrite(), lines 342-351.

\* A check_history_rewrite that does not act on git diff's exit status.
AfterDiff_ignored(empty) == LoopTo(project + 1, ncs_loot) /\ UNCHANGED running

\* A check_history_rewrite that starts the rewrite again after a mismatch.
AfterDiff_again(empty) ==
    IF empty THEN LoopTo(project + 1, ncs_loot) /\ UNCHANGED running
             ELSE pc' = "checkout" /\ project' = project /\ UNCHANGED running

\* try: runc('git diff --exit-code ...') except CalledProcessError:
\* sys.exit('diff is not empty; see above'); otherwise main's loop goes on.
AfterDiff(empty) ==
    IF empty THEN LoopTo(project + 1, ncs_loot) /\ UNCHANGED running
             ELSE Die("HistoryMismatch") /\ project' = project

\* A main() that goes on to the next project without check_history_rewrite.
GitDiff_skipped ==
    /\ pc = "diff"
    /\ LoopTo(project + 1, ncs_loot)
    /\ UNCHANGED <<cmdline, rerun, lookup, zephyr_merge_base, lootvars, sha, clones, results,
                   ops, running>>

\* check_history_rewrite(to_path, loot['ncs-commit'], rewrite_sha):
\* runc(f'git diff --exit-code {before_sha} {rewrite_sha}', cwd=path)
GitDiff ==
    /\ pc = "diff"
    /\ IF "ncs-commit" \notin Loot.keys
       THEN Die("KeyError") /\ UNCHANGED <<project, diffs, ops>>
       ELSE /\ Run("diff", Name, 0)
            /\ \E empty \in BOOLEAN :
                 /\ diffs' = Append(diffs, [proj |-> Name,
                                            before_sha |-> NcsCommit(Name),
                                            rewrite_sha |-> rewrite_sha,
                                            empty |-> empty])
                 /\ AfterDiff(empty)
    /\ UNCHANGED <<cmdline, rerun, lookup, zephyr_merge_base, lootvars, sha, clones, rewrite_sha,
                   reported>>

\* all_good(), and main() returns: the interpreter ends with status 0.
AllGood ==
    /\ pc = "all_good"
    /\ reported' = TRUE
    /\ pc' = "exit"
    /\ exit_status' = 0
    /\ UNCHANGED <<cmdline, rerun, lookup, zephyr_merge_base, lootvars, loopvars, clones,
                   rewrite_sha, diffs, ops, error>>

-----------------------------------------------------------------------------
Next ==
    \/ CheckZephyr
    \/ ChooseMergeBase
    \/ GitFetch
    \/ GitRevParseFetchHead
    \/ GitMergeBase
    \/ LootMkstemp
    \/ WestNcsLoot
    \/ JsonLoad
    \/ LootFinally
    \/ CheckShortlogs
    \/ SynchronizeInto
    \/ GitClone
    \/ GitConfigName
    \/ GitConfigEmail
    \/ GitCheckout
    \/ GitStatus
    \/ CherryPick
    \/ CherryPickAbort
    \/ CherryPickKeepRedundant
    \/ GitRevParseHead
    \/ GitDiff
    \/ AllGood

Spec == Init /\ [][Next]_vars

-----------------------------------------------------------------------------
\* What the claims speak of.

\* The run has ended, or is about to end, in success.
Success == pc = "all_good" \/ reported \/ (pc = "exit" /\ exit_status = 0)
\* The run has ended in failure.
Failure == pc = "exit" /\ exit_status # 0 /\ ~reported

\* The commit the replay of all of entry k's patches leaves at HEAD.
Rewritten(k) ==
    [kind  |-> "upstream",
     proj  |-> ncs_loot[k].name,
     picks |-> [j \in 1..Len(ncs_loot[k].shas) |->
                  [sha |-> ncs_loot[k].shas[j], redundant |-> FALSE]]]

\* The git diff commands run for project p.
DiffsOf(p) == { d \in DOMAIN diffs : diffs[d].proj = p }
\* The commands of the given kinds run so far.
OpsOf(kinds) == { a \in DOMAIN ops : ops[a].op \in kinds }
LastOp == ops[Len(ops)]

CherryPickOps ==
    {"cherry-pick", "cherry-pick --abort", "cherry-pick --keep-redundant-commits"}
RewriteOps == {"checkout", "status"} \cup CherryPickOps
CloneOps == {"rmtree", "clone"}
ConfigOps == {"config user.name", "config user.email"}
\* The commands run inside a clone.
InCloneOps == RewriteOps \cup ConfigOps \cup {"rev-parse HEAD", "diff"}

\* The keep-redundant retry of some patch of project p has succeeded.
RetrySucceeded(p) ==
    \E j \in DOMAIN repo[p].HEAD.picks : repo[p].HEAD.picks[j].redundant
\* The keep-redundant retry of some patch of project p has failed.
RetryFailed(p) == repo[p].state = "conflict"

-----------------------------------------------------------------------------
\* C1: the run ends in success only if, for every project of the loot, git
\* diff was run between the project's 'ncs-commit' and its rewritten HEAD and
\* found no difference; a patch that cannot be replayed, a non-empty diff, a
\* truncated shortlog or an existing clone path without --force ends the run
\* with a non-zero status, and success is not reported.
C1_SuccessOnlyIfAllVerified ==
    /\ Success =>
         \A k \in DOMAIN ncs_loot :
            \E d \in DiffsOf(ncs_loot[k].name) :
               /\ diffs[d].before_sha = NcsCommit(ncs_loot[k].name)
               /\ diffs[d].rewrite_sha = Rewritten(k)
               /\ diffs[d].empty
    /\ \A d \in DOMAIN diffs : ~diffs[d].empty => Failure
    /\ error \in {"PatchReplayError", "RedundantCommit", "HistoryMismatch",
                  "TruncatedSummary", "ClonePathConflict"} => Failure

C1_Witness ==
    /\ reported
    /\ pc = "exit"
    /\ Len(ncs_loot) >= 2
    /\ \A k \in DOMAIN ncs_loot : Len(ncs_loot[k].shas) >= 1

C3_FailedRetryEndsRun ==
    \A p \in Projects :
       RetryFailed(p) =>
          /\ Failure
          /\ ~ENABLED Next
          /\ p = Name
          /\ LastOp = Op("cherry-pick --keep-redundant-commits", p, Loot.shas[sha])
          /\ Len(repo[p].HEAD.picks) = sha - 1
          /\ rewrite_sha.proj # p
          /\ DiffsOf(p) = {}
          /\ \A a \in DOMAIN ops : ops[a].proj <= p
          /\ \A k \in DOMAIN ncs_loot : k > project => disk[ncs_loot[k].name] # "clone"

C3_Witness ==
    \E p \in Projects :
       /\ RetryFailed(p)
       /\ project = 1
       /\ sha = 1
       /\ Len(ncs_loot) >= 2
       /\ Len(ncs_loot[project].shas) >= 2
       /\ pc = "exit"

\* C4: whenever a shortlog of any project of the loot ends in "...", the run
\* fails before anything is cloned, removed, checked out or cherry-picked for
\* any project.
C4_TruncatedShortlogFailsBeforeAnyClone ==
    (\E k \in DOMAIN ncs_loot : \E j \in DOMAIN ncs_loot[k].shortlogs :
        endswith(ncs_loot[k].shortlogs[j], Ellipsis))
    => /\ OpsOf(CloneOps \cup RewriteOps) = {}
       /\ ~Success

\* C5: when west ncs-loot fails, its JSON does not parse, or an entry of the
\* loot lacks one of the five keys, the run fails before any checkout or
\* cherry-pick has been run for any project.
C5_MalformedLootFailsBeforeAnyRewrite ==
    (exc # "" \/ \E k \in DOMAIN ncs_loot : ncs_loot[k].keys # Keys)
    => /\ OpsOf({"checkout"} \cup CherryPickOps) = {}
       /\ ~Success

\* C6: git clone is only run into a path that does not exist: an existing
\* path without --force ends the run with nothing removed and nothing cloned
\* there; with --force the path is removed first, and the clone command is the
\* next thing run, so the repository the run works in is never the one that
\* was there before.  (ops only grows at its end, so what is said of the last
\* command in every state holds of every command.)
C6_CloneOnlyIntoFreePath ==
    /\ pc = "clone" => disk[Name] = "absent"
    /\ error = "ClonePathConflict" =>
          /\ Failure
          /\ ~ARGS.force
          /\ disk[Name] = "stale" /\ repo[Name] = StaleRepo
          /\ \A a \in OpsOf(CloneOps) : ops[a].proj # Name
    /\ ~ARGS.force => OpsOf({"rmtree"}) = {}
    /\ Len(ops) >= 2 /\ ops[Len(ops) - 1].op = "rmtree" =>
          LastOp = Op("clone", ops[Len(ops) - 1].proj, 0)
    /\ ops # <<>> /\ LastOp.op \in InCloneOps =>
          \E c \in DOMAIN ops : ops[c].op = "clone" /\ ops[c].proj = LastOp.proj
    /\ \A q \in Projects : disk[q] = "clone" => repo[q].state # "stale"

C6_Witness ==
    /\ ARGS.force
    /\ pc = "rev_parse"
    /\ project = 2
    /\ Op("rmtree", Name, 0) \in { ops[a] : a \in DOMAIN ops }
    /\ disk[Name] = "clone"

\* C7: a clone the run has created and verified is still on disk, with its
\* rewritten history, in every later state of the run.
C7_ClonesKeptForTheRun ==
    \A k \in DOMAIN ncs_loot :
       (k < project \/ Success) =>
          /\ disk[ncs_loot[k].name] = "clone"
          /\ repo[ncs_loot[k].name].HEAD = Rewritten(k)

\* The plain cherry-picks run for project p, in the order they were run.
PlainPicks(p) ==
    SelectSeq(ops, LAMBDA o : o.op = "cherry-pick" /\ o.proj = p)

\* C8: the plain cherry-picks of a project are attempted in exactly the order
\* of its 'shas' list, none skipped, repeated or reordered; the patches
\* applied are a prefix of the list, and patch i+1 is first attempted only
\* when patch i has been applied.
C8_PicksInLootOrder ==
    \A k \in DOMAIN ncs_loot :
       LET p     == ncs_loot[k].name
           shas  == ncs_loot[k].shas
           tried == PlainPicks(p)
           picks == repo[p].HEAD.picks
       IN  /\ Len(tried) <= Len(shas)
           /\ \A j \in DOMAIN tried : tried[j].arg = shas[j]
           /\ Len(picks) <= Len(shas)
           /\ \A j \in DOMAIN picks : picks[j].sha = shas[j]
           /\ disk[p] = "clone" => Len(tried) <= Len(picks) + 1
           /\ disk[p] = "clone" /\ pc = "cherry_pick" /\ k = project =>
                 Len(picks) = sha - 1 /\ Len(tried) = sha - 1

C8_Witness ==
    /\ project = 2
    /\ Len(PlainPicks(Name)) = 2
    /\ Len(repo[Name].HEAD.picks) = 2
    /\ Len(PlainPicks(ncs_loot[1].name)) = 2

\* All patches of entry k are applied in its clone.
AllApplied(k) ==
    LET p == ncs_loot[k].name
    IN  /\ disk[p] = "clone"
        /\ repo[p].HEAD.kind = "upstream"
        /\ Len(repo[p].HEAD.picks) = Len(ncs_loot[k].shas)

C10_UserConfigBeforeRewrite ==
    /\ ARGS.no_user_config =>
          /\ OpsOf(ConfigOps) = {}
          /\ \A q \in Projects : repo[q].config = {}
    /\ ops # <<>> /\ LastOp.op \in ConfigOps =>
          /\ \E c \in DOMAIN ops : ops[c].op = "clone" /\ ops[c].proj = LastOp.proj
          /\ \A b \in DOMAIN ops :
                ~(ops[b].op \in RewriteOps /\ ops[b].proj = LastOp.proj)

C10_Witness ==
    /\ ~ARGS.no_user_config
    /\ project = 2
    /\ pc = "rev_parse"
    /\ repo[Name].config = {"user.name", "user.email"}
    /\ Len(repo[Name].HEAD.picks) >= 1

\* The commands of get_merge_base(), in the order of its code.
BaselineOps ==
    <<Op("fetch", 0, 0), Op("rev-parse FETCH_HEAD", 0, 0), Op("merge-base", 0, 0)>>

\* C11: with --zephyr-merge-base no fetch, rev-parse or merge-base is run and
\* the value given is what west ncs-loot gets; without it the three run in
\* that order before anything else, west ncs-loot gets the merge-base they
\* produce, and when one of them fails the run ends there, with no loot asked
\* for, no clone made and no merge-base set.
C11_BaselineBeforeLoot ==
    /\ ARGS.zephyr_merge_base # "None" =>
          /\ ops # <<>> => ops[1] = Op("west ncs-loot", 0, 0)
          /\ ops # <<>> => LastOp \notin { BaselineOps[j] : j \in 1..3 }
          /\ loot_rev \in {"None", ARGS.zephyr_merge_base}
          /\ zephyr_merge_base \in {"None", ARGS.zephyr_merge_base}
    /\ ARGS.zephyr_merge_base = "None" =>
          /\ Len(ops) <= 3 => ops = SubSeq(BaselineOps, 1, Len(ops))
          /\ Len(ops) > 3 =>
                /\ SubSeq(ops, 1, 4) = Append(BaselineOps, Op("west ncs-loot", 0, 0))
                /\ LastOp \notin { BaselineOps[j] : j \in 1..3 }
          /\ loot_rev \in {"None", "MERGE_BASE"}
          /\ zephyr_merge_base \in {"None", "MERGE_BASE"}
          /\ zephyr_merge_base = "MERGE_BASE" => Len(ops) >= 3
          /\ Len(ops) > 3 => zephyr_merge_base = "MERGE_BASE"
          /\ pc = "exit" /\ Len(ops) <= 3 =>
                /\ Failure
                /\ zephyr_merge_base = "None" /\ loot_rev = "None"
                /\ ncs_loot = <<>> /\ ~json_tmp
                /\ \A q \in Projects : disk[q] # "clone"
    /\ ops # <<>> /\ LastOp.op = "west ncs-loot" =>
          loot_rev = zephyr_merge_base /\ loot_rev # "None"

C11_Witness ==
    /\ ARGS.zephyr_merge_base = "None"
    /\ loot_rev = "MERGE_BASE"
    /\ pc = "exit"
    /\ reported
    /\ Len(ncs_loot) >= 1

-----------------------------------------------------------------------------
\* C12: rewriting never touches the original repository.  Every git config,
\* checkout, cherry-pick, cherry-pick --abort and keep-redundant retry of a run
\* is executed in the clone directory oss-history/<project>, and in every
\* state of the run each repository of the workspace has the HEAD, the
\* working-tree state and the configuration it started with.  (git fetch, of
\* the baseline step, runs in the zephyr repository; it is no part of the
\* rewrite and verify steps and moves neither HEAD nor the working tree.)
MutatingOps ==
    {"config user.name", "config user.email", "checkout", "cherry-pick",
     "cherry-pick --abort", "cherry-pick --keep-redundant-commits"}

C12_SourceRepositoryUntouched ==
    /\ \A p \in Projects : workspace[p] = WorkspaceRepo(p)
    /\ ops # <<>> /\ LastOp.op \in MutatingOps =>
          /\ Cwd(LastOp.op, LastOp.proj) = <<"oss-history", LastOp.proj>>
          /\ Cwd(LastOp.op, LastOp.proj) # FromPath(LastOp.proj)

\* A run that rewrote and verified a project with patches ends with the
\* rewritten history in the clone and the workspace repository as it was.
C12_Witness ==
    /\ pc = "exit" /\ reported
    /\ \E p \in Projects :
          /\ repo[p].HEAD.kind = "upstream"
          /\ Len(repo[p].HEAD.picks) >= 1
          /\ workspace[p] = WorkspaceRepo(p)

-----------------------------------------------------------------------------
\* C13: every project's execution is a path of the state machine
\*   Init -> Baselined -> Replaying(i) -> {Replaying(i+1) | Failed}
\*        -> Verifying -> {Verified | Failed}.
\* Phase(k) is the state of the k-th project of the loot: Init until its
\* checkout is done, Baselined after it, Replaying(i) while patch i is being
\* picked, aborted or retried, Verifying from git rev-parse HEAD to the end of
\* git diff, Verified when the loop has moved past it, Failed when the run
\* ended on its patch or its diff.  A run that dies of an external command or
\* of a missing key stops the path where it is (Crashed).  A project without
\* patches goes from Baselined to Verifying.  Every step of the run moves each
\* project along an edge of the machine or leaves it where it is; Verifying is
\* entered with all patches applied in the clone; Failed and Verified have no
\* way out, and once a project is Failed no command is run any more.
Phase(k) ==
    IF project = 0 \/ k > project THEN [st |-> "Init", i |-> 0]
    ELSE IF k < project THEN [st |-> "Verified", i |-> 0]
    ELSE IF pc \in {"check_shortlogs", "synchronize_into", "clone",
                    "config_name", "config_email", "checkout"}
         THEN [st |-> "Init", i |-> 0]
    ELSE IF pc = "status" THEN [st |-> "Baselined", i |-> 0]
    ELSE IF pc \in {"cherry_pick", "cherry_pick_abort", "keep_redundant"}
         THEN [st |-> "Replaying", i |-> sha]
    ELSE IF pc \in {"rev_parse", "diff"} THEN [st |-> "Verifying", i |-> 0]
    ELSE IF pc = "all_good" \/ (pc = "exit" /\ exit_status = 0)
         THEN [st |-> "Verified", i |-> 0]
    ELSE IF error \in {"PatchReplayError", "RedundantCommit", "HistoryMismatch"}
         THEN [st |-> "Failed", i |-> 0]
    ELSE [st |-> "Crashed", i |-> 0]

\* The edges of the machine, for a project with n patches.
Edge(a, b, n) ==
    \/ a = b
    \/ a.st = "Init" /\ b.st = "Baselined"
    \/ a.st = "Baselined" /\ b = [st |-> "Replaying", i |-> 1] /\ n >= 1
    \/ a.st = "Baselined" /\ b.st = "Verifying" /\ n = 0
    \/ a.st = "Replaying" /\ b = [st |-> "Replaying", i |-> a.i + 1] /\ a.i < n
    \/ a.st = "Replaying" /\ b.st = "Failed"
    \/ a.st = "Replaying" /\ b.st = "Verifying" /\ a.i = n
    \/ a.st = "Verifying" /\ b.st \in {"Verified", "Failed"}
    \/ a.st \in {"Init", "Baselined", "Replaying", "Verifying"} /\ b.st = "Crashed"

C13_ProjectStateMachine ==
    [][ /\ \A k \in 1..Len(ncs_loot) :
              /\ Edge(Phase(k), Phase(k)', Len(ncs_loot[k].shas))
              /\ Phase(k).st # "Verifying" /\ Phase(k)'.st = "Verifying" =>
                    Len(repo'[ncs_loot[k].name].HEAD.picks) = Len(ncs_loot[k].shas)
              /\ Phase(k).st \in {"Failed", "Verified"} => Phase(k)' = Phase(k)
        /\ (\E k \in 1..Len(ncs_loot) : Phase(k).st = "Failed") => ops' = ops
      ]_vars

\* The first project went all the way to Verified and the second, with as
\* many patches as a project can have, was replayed, verified and Failed.
C13_Witness ==
    /\ Len(ncs_loot) >= 2
    /\ Phase(1).st = "Verified"
    /\ Phase(2).st = "Failed"
    /\ error = "HistoryMismatch"
    /\ Len(ncs_loot[2].shas) = MaxPatches
    /\ Len(repo[ncs_loot[2].name].HEAD.picks) = MaxPatches

-----------------------------------------------------------------------------
\* C15: each patch is passed to cherry-pick at most twice per run: once
\* plainly and, only if that failed, once with --keep-redundant-commits.  The
\* plain picks of a project go up the list of patches, one each; an abort
\* follows the failed plain pick of its patch; the retry follows the abort of
\* its patch, which has ended with status 0 and left the clone clean, and the
\* run ends with the retry; an abort that fails ends the run in failure with
\* no retry.  No command is run twice with the same arguments for the same
\* project.
Issued == ops'[Len(ops')]

C15_AtMostOneRetryAfterAbort ==
    [][ ops' # ops =>
          /\ \A j \in 1..Len(ops) : ops[j] # Issued
          /\ Issued.op = "cherry-pick" =>
                /\ LastOp.op \in {"status", "cherry-pick"}
                /\ LastOp.proj = Issued.proj
                /\ LastOp.op = "cherry-pick" => Issued.arg > LastOp.arg
          /\ Issued.op = "cherry-pick --abort" =>
                /\ LastOp = Op("cherry-pick", Issued.proj, Issued.arg)
                /\ repo[Issued.proj].state = "picking"
                /\ repo'[Issued.proj].state # "clean" =>
                      pc' = "exit" /\ exit_status' = 1 /\ error' = "CommandFailed"
          /\ Issued.op = "cherry-pick --keep-redundant-commits" =>
                /\ LastOp = Op("cherry-pick --abort", Issued.proj, Issued.arg)
                /\ ops[Len(ops) - 1] = Op("cherry-pick", Issued.proj, Issued.arg)
                /\ repo[Issued.proj].state = "clean"
                /\ pc' = "exit" /\ exit_status' = 1
      ]_vars

\* A run ended when the abort of the second patch of a project failed.
C15_Witness ==
    /\ pc = "exit" /\ error = "CommandFailed"
    /\ ops # <<>> /\ LastOp.op = "cherry-pick --abort"
    /\ sha = 2
    /\ repo[Name].state = "picking"

-----------------------------------------------------------------------------
\* C16: the temporary file for the loot JSON is removed on every way out of
\* get_ncs_loot.  It exists only between mkstemp and the finally clause; in
\* every state after get_ncs_loot has returned (the loop over the loot, or
\* all_good) or raised (the run ended with CommandFailed of west or with
\* JSONDecodeError) it does not exist.
InGetNcsLoot == pc \in {"west", "json_load", "finally"}

C16_TempFileRemoved ==
    /\ json_tmp => InGetNcsLoot
    /\ pc \in {"west", "json_load"} => json_tmp
    /\ ops # <<>> /\ ~InGetNcsLoot /\ LastOp.op = "west ncs-loot" =>
          /\ ~json_tmp
          /\ exc \in {"", "CommandFailed", "JSONDecodeError"}
          /\ exc # "" => pc = "exit" /\ error = exc
          /\ exc = "" /\ pc = "exit" => error # "JSONDecodeError"

\* get_ncs_loot was left by the exception of json.load, and the file is gone.
C16_Witness ==
    /\ pc = "exit" /\ error = "JSONDecodeError"
    /\ ops # <<>> /\ LastOp.op = "west ncs-loot"
    /\ ~json_tmp

-----------------------------------------------------------------------------
\* C18: projects are processed strictly one after another.  The loop is at
\* project k+1 (from the check of its shortlogs on) only when the diff of
\* each of the projects 1..k has been run, in this order, and was empty;
\* every command run for a project is run for the project the loop is at; a
\* clone lies only at the path of the project the loop is at or of a project
\* whose diff was empty, so at most one project is between its clone and its
\* verification; the last command is the diff of the project before only
\* until the first command for the project the loop is at; and when the run
\* fails at project k no command has been run and no clone made for a later
\* project.  (What rmtree does to directories
\* that were there before the run is C7's matter.)
Verified(k) ==
    /\ k <= Len(diffs)
    /\ diffs[k].proj = ncs_loot[k].name
    /\ diffs[k].empty

-----------------------------------------------------------------------------
\* C19: success is reported only if every requested project (Projects, the
\* -p list or the default list, which main() hands to west ncs-loot) was
\* rewritten and verified with an empty diff; a requested project that is not
\* in the loot prevents the success outcome.
C19_SuccessOnlyIfAllRequestedVerified ==
    reported =>
       \A p \in Projects :
          /\ \E k \in 1..Len(ncs_loot) : ncs_loot[k].name = p
          /\ \E d \in DiffsOf(p) : diffs[d].empty

-----------------------------------------------------------------------------
\* The run under the assumption that every external command returns: a step
\* that can be taken is taken.
FairSpec == Spec /\ WF_vars(Next)

\* Where main() is, as a number that grows along the code of one turn of the
\* loop over the projects.
PcRank ==
    CASE pc = "main" -> 0
      [] pc = "baseline" -> 1
      [] pc = "fetch" -> 2
      [] pc = "rev_parse_fetch_head" -> 3
      [] pc = "merge_base" -> 4
      [] pc = "get_ncs_loot" -> 5
      [] pc = "west" -> 6
      [] pc = "json_load" -> 7
      [] pc = "finally" -> 8
      [] pc = "check_shortlogs" -> 9
      [] pc = "synchronize_into" -> 10
      [] pc = "clone" -> 11
      [] pc = "config_name" -> 12
      [] pc = "config_email" -> 13
      [] pc = "checkout" -> 14
      [] pc = "status" -> 15
      [] pc = "cherry_pick" -> 16
      [] pc = "cherry_pick_abort" -> 17
      [] pc = "keep_redundant" -> 18
      [] pc = "rev_parse" -> 19
      [] pc = "diff" -> 20
      [] pc = "all_good" -> 21
      [] pc = "exit" -> 22

\* The project, the place in the code and the patch the run is at.
Progress == <<project, PcRank, sha>>

Less(a, b) ==
    \/ a[1] < b[1]
    \/ a[1] = b[1] /\ a[2] < b[2]
    \/ a[1] = b[1] /\ a[2] = b[2] /\ a[3] < b[3]

\* How many commands of a kind were run for project p.
Count(kind, p) ==
    Cardinality({ a \in DOMAIN ops : ops[a].op = kind /\ ops[a].proj = p })

\* C20: when every external command returns, every run ends, in the success
\* outcome (status 0 after all_good) or in a failure exit (status 1, nothing
\* reported); for a project with n patches the replay has run at most n plain
\* cherry-picks, at most one abort and at most one retry; and every step takes
\* the run further in (project, place in the code, patch), so that no state
\* is visited twice.
C20_RunTerminates ==
    /\ <>(pc = "exit")
    /\ [][Less(Progress, Progress')]_vars
    /\ [](pc = "exit" =>
            /\ \/ exit_status = 0 /\ reported /\ error = ""
               \/ exit_status = 1 /\ ~reported /\ error # ""
            /\ \A k \in 1..Len(ncs_loot) :
                  LET p == ncs_loot[k].name
                  IN  /\ Count("cherry-pick", p) <= Len(ncs_loot[k].shas)
                      /\ Count("cherry-pick --abort", p) <= 1
                      /\ Count("cherry-pick --keep-redundant-commits", p) <= 1)

\* A run has ended after as many plain cherry-picks as the project has
\* patches, one abort and one retry.
C20_Witness ==
    /\ pc = "exit"
    /\ Len(ncs_loot) >= 1
    /\ Len(ncs_loot[1].shas) = MaxPatches
    /\ Count("cherry-pick", ncs_loot[1].name) = MaxPatches
    /\ Count("cherry-pick --abort", ncs_loot[1].name) = 1
    /\ Count("cherry-pick --keep-redundant-commits", ncs_loot[1].name) = 1

-----------------------------------------------------------------------------
\* rewrite_history() and check_history_rewrite() run more than once, each time
\* on a fresh clone and with the same base_commit, patches and before_sha.
\* What git makes of a patch on top of the history rewritten so far is fixed
\* by the contents of the commits, so it is part of the inputs: the patch
\* applies ("clean"), is empty on top of the new history ("redundant"), or
\* conflicts.  A commit that git cherry-pick creates carries the committer
\* date, the time of day at which it was created.

\* The inputs: the patches are 1..n, and the tree at before_sha is either what
\* the replay of all patches gives or another one.
RerunInputs ==
    UNION { { [base_commit |-> 1,
               patches |-> [j \in 1..n |-> j],
               before_tree |-> [base |-> 1, changes |-> t],
               applies |-> a] :
              a \in [1..n -> {"clean", "redundant", "conflict"}],
              t \in {[j \in 1..n |-> j], <<0>>} } :
            n \in 0..MaxPatches }

\* No commit: the run made no rewrite_sha.
NoCommit == [base |-> 0, picks |-> <<>>]

\* The commit a cherry-pick of patch s at time t creates on top of commit c.
Committed(c, s, redundant, t) ==
    [c EXCEPT !.picks = Append(@, [sha |-> s, redundant |-> redundant,
                                   date |-> t])]

\* The tree of a commit, as git diff compares it: the tree of the base and
\* the changes of the patches picked on top, without the commits' dates.
TreeOf(c) ==
    [base |-> c.base, changes |-> [j \in 1..Len(c.picks) |-> c.picks[j].sha]]

\* A checkout that leaves HEAD where the run before it left it.
CheckedOut_kept(head) ==
    IF head = NoCommit THEN [base |-> rr_in.base_commit, picks |-> <<>>]
                       ELSE head

\* HEAD after git clone and git checkout {base_commit}.
CheckedOut(head) == [base |-> rr_in.base_commit, picks |-> <<>>]

\* main() has not started.
MainIdle ==
    /\ pc = "main"
    /\ ARGS = [force |-> FALSE, no_user_config |-> FALSE,
               zephyr_merge_base |-> "None"]
    /\ zephyr_is_dir = TRUE
    /\ zephyr_merge_base = "None"
    /\ json_tmp = FALSE
    /\ exc = ""
    /\ loot_rev = "None"
    /\ ncs_loot = <<>>
    /\ project = 0
    /\ sha = 0
    /\ disk = [p \in Projects |-> "none"]
    /\ repo = [p \in Projects |-> NoRepo]
    /\ workspace = [p \in Projects |-> WorkspaceRepo(p)]
    /\ rewrite_sha = NoSha
    /\ diffs = <<>>
    /\ ops = <<>>
    /\ exit_status = 0
    /\ error = ""
    /\ reported = FALSE

InitRerun ==
    /\ rr_in \in RerunInputs
    /\ rr_pc = "checkout"
    /\ rr_HEAD = NoCommit
    /\ rr_sha = 0
    /\ rr_out = <<>>
    /\ now = 1
    /\ MainIdle
    /\ NoLookup

\* What main() has, which no rerun changes.
mainvars ==
    <<pc, ARGS, zephyr_is_dir, zephyr_merge_base, json_tmp, exc, loot_rev,
      ncs_loot, project, sha, disk, repo, workspace, rewrite_sha, diffs, ops,
      exit_status, error, reported>>

\* Time passes.
Tick ==
    /\ now < MaxClock
    /\ now' = now + 1
    /\ UNCHANGED <<mainvars, lookup, rr_in, rr_pc, rr_HEAD, rr_sha, rr_out>>

\* A rerun ends: its exit status, its rewrite_sha and whether the diff was
\* empty are kept, and the next rerun starts from a fresh clone.
RerunEnds(status, rewritten, ok) ==
    /\ rr_out' = Append(rr_out, [status |-> status, rewritten |-> rewritten,
                                 ok |-> ok])
    /\ rr_pc' = "checkout"

\* synchronize_into() and runc(f'git checkout {base_commit}', cwd=path)
RerunCheckout ==
    /\ rr_pc = "checkout"
    /\ Len(rr_out) < MaxReruns
    /\ rr_HEAD' = CheckedOut(rr_HEAD)
    /\ rr_sha' = 1
    /\ rr_pc' = IF rr_in.patches = <<>> THEN "rev_parse" ELSE "cherry_pick"
    /\ UNCHANGED <<mainvars, lookup, rr_in, rr_out, now>>

\* One turn of the for loop over patches: the plain cherry-pick, and when it
\* fails the abort, the retry with --keep-redundant-commits and sys.exit(1).
RerunCherryPick ==
    /\ rr_pc = "cherry_pick"
    /\ LET s == rr_in.patches[rr_sha]
       IN  IF rr_in.applies[rr_sha] = "clean"
           THEN /\ rr_HEAD' = Committed(rr_HEAD, s, FALSE, now)
                /\ rr_sha' = rr_sha + 1
                /\ rr_pc' = IF rr_sha < Len(rr_in.patches) THEN "cherry_pick"
                                                           ELSE "rev_parse"
                /\ UNCHANGED rr_out
           ELSE /\ rr_HEAD' = IF rr_in.applies[rr_sha] = "redundant"
                              THEN Committed(rr_HEAD, s, TRUE, now)
                              ELSE rr_HEAD
                /\ rr_sha' = rr_sha
                /\ RerunEnds(1, NoCommit, FALSE)
    /\ UNCHANGED <<mainvars, lookup, rr_in, now>>

\* rewrite_sha = git rev-parse HEAD, and check_history_rewrite(): git diff
\* --exit-code {before_sha} {rewrite_sha} compares the two trees.
RerunRevParseAndDiff ==
    /\ rr_pc = "rev_parse"
    /\ LET ok == TreeOf(rr_HEAD) = rr_in.before_tree
       IN  RerunEnds(IF ok THEN 0 ELSE 1, rr_HEAD, ok)
    /\ UNCHANGED <<mainvars, lookup, rr_in, rr_HEAD, rr_sha, now>>

NextRerun ==
    \/ Tick
    \/ RerunCheckout
    \/ RerunCherryPick
    \/ RerunRevParseAndDiff

RerunSpec == InitRerun /\ [][NextRerun]_vars

-----------------------------------------------------------------------------
\* get_merge_base(path, upstream_url) with branch=None, lines 177-226.
\* Strings are sequences of characters; "a" stands for any character of a
\* reference name.

RefPrefix == <<"r", "e", "f", ":", " ">>

\* s.startswith(prefix)
startswith(s, prefix) ==
    /\ Len(s) >= Len(prefix)
    /\ SubSeq(s, 1, Len(prefix)) = prefix

\* The index of the first c in s, or 0.
RECURSIVE find(_, _, _)
find(s, c, from) ==
    IF from > Len(s) THEN 0
    ELSE IF s[from] = c THEN from
    ELSE find(s, c, from + 1)

\* s.splitlines(), for strings whose only line boundary is "\n"
RECURSIVE splitlines(_)
splitlines(s) ==
    IF s = <<>> THEN <<>>
    ELSE LET k == find(s, "\n", 1)
         IN  IF k = 0 THEN <<s>>
             ELSE <<SubSeq(s, 1, k - 1)>> \o splitlines(SubSeq(s, k + 1, Len(s)))

\* s.split('\t')[0]
split0(s) ==
    LET k == find(s, "\t", 1)
    IN  IF k = 0 THEN s ELSE SubSeq(s, 1, k - 1)

\* What git ls-remote may print: up to MaxLines lines, each ended by "\n";
\* a line begins with 'ref: ', with 'ref:' or with neither and goes on with
\* up to MaxBody characters and tabs.
Bodies == UNION { [1..n -> {"a", "\t"}] : n \in 0..MaxBody }
Lines ==
    { b \o t : b \in {<<>>, RefPrefix, <<"r", "e", "f", ":">>}, t \in Bodies }
RECURSIVE join(_)
join(lines) ==
    IF lines = <<>> THEN <<>>
    ELSE lines[1] \o <<"\n">> \o join(Tail(lines))
Outputs == { join(ls) : ls \in UNION { [1..n -> Lines] : n \in 0..MaxLines } }

\* A get_head_branch that returns the last 'ref: ' line's target.
RECURSIVE get_head_branch_last(_)
get_head_branch_last(lines) ==
    IF lines = <<>> THEN None
    ELSE LET line == lines[Len(lines)]
         IN  IF ~startswith(line, RefPrefix)
             THEN get_head_branch_last(SubSeq(lines, 1, Len(lines) - 1))
             ELSE [given |-> TRUE,
                   name |-> split0(SubSeq(line, Len(RefPrefix) + 1, Len(line)))]

\* The for loop of get_head_branch over output.splitlines(): what it
\* returns, or None when it falls through to raise RuntimeError(output).
RECURSIVE get_head_branch(_)
get_head_branch(lines) ==
    IF lines = <<>> THEN None
    ELSE LET line == lines[1]
         IN  IF ~startswith(line, RefPrefix)
             THEN get_head_branch(Tail(lines))
             ELSE [given |-> TRUE,
                   name |-> split0(SubSeq(line, Len(RefPrefix) + 1, Len(line)))]

InitMergeBase ==
    /\ output = <<>>
    /\ branch = None
    /\ mb_pc = "get_head_branch"
    /\ mb_ops = <<>>
    /\ mb_exc = ""
    /\ MainIdle
    /\ NoRerun

\* A git command of get_merge_base, with the argument that matters.
Git(cmd, arg) == mb_ops' = Append(mb_ops, [cmd |-> cmd, arg |-> arg])

\* An exception leaves get_merge_base.
Raise(e) == mb_pc' = "raised" /\ mb_exc' = e

\* output = runc_out(['git', 'ls-remote', '--quiet', '--symref', url, 'HEAD'])
GitLsRemote ==
    /\ mb_pc = "get_head_branch"
    /\ Git("ls-remote", <<>>)
    /\ \/ Raise("CalledProcessError") /\ output' = output
       \/ output' \in Outputs /\ mb_pc' = "splitlines" /\ mb_exc' = mb_exc
    /\ UNCHANGED <<mainvars, rerun, branch>>

\* for line in output.splitlines(): ... return ...; raise RuntimeError(output)
\* and, in get_merge_base, branch = get_head_branch(upstream_url)
GetHeadBranch ==
    /\ mb_pc = "splitlines"
    /\ LET found == get_head_branch(splitlines(output))
       IN  IF found.given
           THEN branch' = found /\ mb_pc' = "fetch" /\ mb_exc' = mb_exc
           ELSE branch' = branch /\ Raise("RuntimeError")
    /\ UNCHANGED <<mainvars, rerun, output, mb_ops>>

\* runc(f'git fetch {upstream_url} {branch}', cwd=path)
GitFetchBranch ==
    /\ mb_pc = "fetch"
    /\ Git("fetch", branch.name)
    /\ \/ Raise("CalledProcessError")
       \/ mb_pc' = "rev_parse" /\ mb_exc' = mb_exc
    /\ UNCHANGED <<mainvars, rerun, output, branch>>

\* upstream_sha = runc_out('git rev-parse FETCH_HEAD', cwd=path).strip()
GitRevParseOfBranch ==
    /\ mb_pc = "rev_parse"
    /\ Git("rev-parse FETCH_HEAD", <<>>)
    /\ \/ Raise("CalledProcessError")
       \/ mb_pc' = "merge_base" /\ mb_exc' = mb_exc
    /\ UNCHANGED <<mainvars, rerun, output, branch>>

\* merge_base = runc_out(f'git merge-base HEAD {upstream_sha}', cwd=path)
GitMergeBaseOfBranch ==
    /\ mb_pc = "merge_base"
    /\ Git("merge-base", <<>>)
    /\ \/ Raise("CalledProcessError")
       \/ mb_pc' = "return" /\ mb_exc' = mb_exc
    /\ UNCHANGED <<mainvars, rerun, output, branch>>

NextMergeBase ==
    \/ GitLsRemote
    \/ GetHeadBranch
    \/ GitFetchBranch
    \/ GitRevParseOfBranch
    \/ GitMergeBaseOfBranch

MergeBaseSpec == InitMergeBase /\ [][NextMergeBase]_vars

\* C17: when get_merge_base is called without a branch, git ls-remote is the
\* first command and runs once, before the fetch; the branch handed to git
\* fetch is the target of the first line of the output that starts with
\* 'ref: ', the text after 'ref: ' up to the first tab or, with no tab, to the
\* end of the line; and when no line starts with 'ref: ' get_merge_base is
\* left by RuntimeError (or by the failure of ls-remote) with neither git
\* fetch nor git merge-base run.
RefLines(lines) == { k \in 1..Len(lines) : startswith(lines[k], RefPrefix) }

FirstRefLine(lines) ==
    lines[CHOOSE k \in RefLines(lines) : \A j \in RefLines(lines) : k <= j]

IsTarget(t, line) ==
    LET rest == SubSeq(line, Len(RefPrefix) + 1, Len(line))
    IN  /\ Len(t) <= Len(rest)
        /\ SubSeq(rest, 1, Len(t)) = t
        /\ \A j \in 1..Len(t) : t[j] # "\t"
        /\ Len(t) < Len(rest) => rest[Len(t) + 1] = "\t"

C17_HeadBranchBeforeFetch ==
    LET lines == splitlines(output)
    IN  /\ \A j \in 1..Len(mb_ops) :
              /\ mb_ops[j].cmd = "ls-remote" <=> j = 1
              /\ mb_ops[j].cmd = "fetch" =>
                    /\ j = 2
                    /\ RefLines(lines) # {}
                    /\ IsTarget(mb_ops[j].arg, FirstRefLine(lines))
              /\ mb_ops[j].cmd \in {"rev-parse FETCH_HEAD", "merge-base"} =>
                    j > 2 /\ RefLines(lines) # {}
        /\ branch.given =>
              RefLines(lines) # {} /\ IsTarget(branch.name, FirstRefLine(lines))
        /\ RefLines(lines) = {} /\ mb_pc \notin {"get_head_branch", "splitlines"} =>
              /\ mb_pc = "raised"
              /\ mb_exc \in {"RuntimeError", "CalledProcessError"}
              /\ Len(mb_ops) = 1
        /\ mb_exc = "RuntimeError" => RefLines(lines) = {} /\ Len(mb_ops) = 1
        /\ mb_pc \in {"rev_parse", "merge_base", "return"} =>
              Len(mb_ops) >= 2 /\ mb_ops[2].cmd = "fetch"

\* get_merge_base returned after ls-remote printed two 'ref: ' lines with
\* different targets, the first with a tab after its target.
C17_Witness ==
    LET lines == splitlines(output)
    IN  /\ mb_pc = "return"
        /\ Len(lines) = 2
        /\ RefLines(lines) = {1, 2}
        /\ split0(lines[1]) # lines[1]
        /\ branch.name # <<>>
        /\ ~IsTarget(branch.name, lines[2])
        /\ mb_ops[2] = [cmd |-> "fetch", arg |-> branch.name]

=============================================================================
